---- MODULE Spec2Model ----
(***************************************************************************)
(* Coordinator of the distributed storage service (src/DfsServer.py).      *)
(* The coordinator is a single asyncio event loop whose handlers make      *)
(* blocking calls (requests, rpyc), so a handler runs to completion before *)
(* any other handler starts.  Wall-clock time still advances while an      *)
(* upload pushes shards to renters, and every get_renters_for_shard call   *)
(* sweeps the membership table again, so the upload is modelled as one     *)
(* step per shard with clock ticks allowed in between.                     *)
(***************************************************************************)
EXTENDS Integers, Sequences, FiniteSets, TLC

\* ---------------------------------------------------------------- bounds
TickStep == 31
MaxTime  == 62
MaxNonce == 2
MaxNoncePlace == 1
MaxSmallSize == 4
MaxMiB == 11

\* ------------------------------------------------------ program constants
SHARD_SIZE         == 1048576
MIN_SHARDS         == 3
MAX_SHARDS         == 10
REPLICATION_FACTOR == 3
RACK_COUNT         == 3
RENTER_TIMEOUT     == 60
TEMP_FILE_TTL      == 30
HEARTBEAT_INTERVAL == 30

NoAddr  == "None"
NoNonce == 0

VARIABLES
    now,                 \* time.time()
    renters,             \* renter_id -> record (dict: DOMAIN is the key set)
    racks,               \* rack label -> set of renter ids
    shard_locations,     \* filename -> placement record
    client_public_keys,  \* usernames with a registered key
    active_challenges,   \* username -> nonce
    blockchain_conn,     \* TRUE iff a ledger connection was made at startup
    artifacts,           \* filename -> content of uploads/reconstructed_<filename>
    timers,              \* pending delete_temp_file_after_delay tasks
    nextNonce,           \* next uuid4 value
    issued,              \* history: nonce -> download request that issued it
    spent,               \* history: nonce -> number of successful verifies
    placed,              \* history: filename -> num_shards of the upload that
                         \*          inserted its placement record
    up,                  \* the upload in progress (pc = "upload")
    pc,                  \* "idle" or "upload"
    resp,                \* the last request and its response
    rt,                  \* one file followed from its bytes to the renters'
                         \* disks and back
    ledger               \* the ledger server: blockchain.json and the calls
                         \* its connection threads are in

vars == <<now, renters, racks, shard_locations, client_public_keys,
          active_challenges, blockchain_conn, artifacts, timers, nextNonce,
          issued, spent, placed, up, pc, resp, rt, ledger>>

\* ---------------------------------------------------------------- helpers
Min(a, b) == IF a < b THEN a ELSE b
Max(a, b) == IF a > b THEN a ELSE b
CeilDiv(a, b) == (a + b - 1) \div b
Range(s) == {s[i] : i \in 1..Len(s)}

\* d[k] = v on a dict
DictSet(d, k, v) == [x \in DOMAIN d \cup {k} |-> IF x = k THEN v ELSE d[x]]
\* del d[k] for every k in ks
DictDel(d, ks) == [x \in DOMAIN d \ ks |-> d[x]]
EmptyDict == [x \in {} |-> 0]

NoResp == [op |-> "none", status |-> 0, file |-> "", user |-> "",
           nonce |-> NoNonce, delivered |-> FALSE, body |-> <<>>,
           sent |-> <<>>, replication |-> 0, stored |-> NoNonce,
           renter |-> "", alive |-> {}, used |-> <<>>, swept |-> {},
           size |-> 0, num_shards |-> 0, payment |-> 0, addr |-> NoAddr,
           blob |-> <<>>]

NoUpload == [filename |-> "", payment |-> 0, file_size |-> 0, num_shards |-> 0,
             actual_replication |-> 0, i |-> 0, shards |-> <<>>,
             scratch |-> {}]

\* ------------------------------------------------------------- membership
RackIds == 0..(RACK_COUNT - 1)

\* assign_rack: round robin on the current size of the membership table
AssignRackId(rs) == Cardinality(DOMAIN rs) % RACK_COUNT

Inactive_Interval(rs, t) ==
    {r \in DOMAIN rs : t - rs[r].last_heartbeat > HEARTBEAT_INTERVAL}

Inactive(rs, t) == {r \in DOMAIN rs : t - rs[r].last_heartbeat > RENTER_TIMEOUT}

\* cleanup_inactive_renters, on the membership table and on the rack sets
SweptRenters_Refresh(rs, t) ==
    [r \in DOMAIN rs \ Inactive(rs, t) |-> [rs[r] EXCEPT !.last_heartbeat = t]]

SweptRenters(rs, t) == DictDel(rs, Inactive(rs, t))
SweptRacks_Keep(rs, rk, t) == rk

SweptRacks(rs, rk, t) == [k \in RackIds |-> rk[k] \ Inactive(rs, t)]

\* the record register_renter stores under renter_id, new or already present
RegisteredRecord_KeepOld(r, rack, addr) ==
    IF r \in DOMAIN renters THEN renters[r]
    ELSE [last_heartbeat |-> now, rack_id |-> rack, blockchain_address |-> addr]

RegisteredRecord(r, rack, addr) ==
    [last_heartbeat |-> now, rack_id |-> rack, blockchain_address |-> addr]

RegisterRenter(r, addr) ==
    /\ pc = "idle"
    /\ LET rack == AssignRackId(renters) IN
        /\ racks' = [racks EXCEPT ![rack] = @ \cup {r}]
        /\ renters' = DictSet(renters, r, RegisteredRecord(r, rack, addr))
    /\ resp' = [NoResp EXCEPT !.op = "register", !.status = 200, !.renter = r]
    /\ UNCHANGED <<now, shard_locations, client_public_keys, active_challenges,
                   blockchain_conn, artifacts, timers, nextNonce, issued,
                   spent, placed, up, pc, rt, ledger>>

\* register_renter on any request body: renter_info["url"] and
\* renter_info["storage_available"] raise KeyError when the key is missing,
\* before assign_rack is called; the KeyError is answered 500
RegisterRenterInfo(renter_info) ==
    IF {"url", "storage_available"} \subseteq DOMAIN renter_info
    THEN RegisterRenter(renter_info.renter_id, renter_info.blockchain_address)
    ELSE /\ pc = "idle"
         /\ resp' = [NoResp EXCEPT !.op = "register", !.status = 500,
                                   !.renter = renter_info.renter_id]
         /\ UNCHANGED <<now, renters, racks, shard_locations,
                        client_public_keys, active_challenges, blockchain_conn,
                        artifacts, timers, nextNonce, issued, spent, placed,
                        up, pc, rt, ledger>>

ReceiveHeartbeat(r, addr) ==
    /\ pc = "idle"
    /\ IF r \in DOMAIN renters
       THEN /\ renters' = [renters EXCEPT ![r].last_heartbeat = now,
                                          ![r].blockchain_address = addr]
            /\ resp' = [NoResp EXCEPT !.op = "heartbeat", !.status = 200,
                                      !.renter = r, !.addr = addr]
       ELSE \* the 404 is raised inside the try and re-raised as 500
            /\ renters' = renters
            /\ resp' = [NoResp EXCEPT !.op = "heartbeat", !.status = 500,
                                      !.renter = r, !.addr = addr]
    /\ UNCHANGED <<now, racks, shard_locations, client_public_keys,
                   active_challenges, blockchain_conn, artifacts, timers,
                   nextNonce, issued, spent, placed, up, pc, rt, ledger>>

\* the reply of a handler that called cleanup_inactive_renters; swept = the
\* renters that call removed
SweepResp == [NoResp EXCEPT !.swept = Inactive(renters, now)]

GetRenters ==
    /\ pc = "idle"
    /\ renters' = SweptRenters(renters, now)
    /\ racks' = SweptRacks(renters, racks, now)
    /\ resp' = [SweepResp EXCEPT !.op = "get-renters", !.status = 200]
    /\ UNCHANGED <<now, shard_locations, client_public_keys, active_challenges,
                   blockchain_conn, artifacts, timers, nextNonce, issued,
                   spent, placed, up, pc, rt, ledger>>

\* --------------------------------------------------------------- placement
\* First loop of get_renters_for_shard: walk the rack sets in order and take
\* one renter from each rack until `ar` renters are selected.
RECURSIVE RackWalk(_, _, _, _, _)
RackWalk(rk, avail, ar, k, sel) ==
    IF k >= RACK_COUNT \/ Len(sel) >= ar
    THEN {sel}
    ELSE LET available_in_rack == (rk[k] \cap avail) \ Range(sel) IN
         IF available_in_rack = {}
         THEN RackWalk(rk, avail, ar, k + 1, sel)
         ELSE UNION {RackWalk(rk, avail, ar, k + 1, Append(sel, r)) :
                        r \in available_in_rack}

\* Second loop: fill from the remaining renters of any rack
RECURSIVE FillRemaining(_, _, _)
FillRemaining(avail, ar, sel) ==
    IF Len(sel) >= ar \/ avail \ Range(sel) = {}
    THEN {sel}
    ELSE UNION {FillRemaining(avail, ar, Append(sel, r)) :
                   r \in avail \ Range(sel)}

\* get_renters_for_shard after the sweep: every list random.choice can produce
SelectedRenters(rs, rk) ==
    LET avail == DOMAIN rs
        actual_replication == Min(REPLICATION_FACTOR, Cardinality(avail))
    IN UNION {FillRemaining(avail, actual_replication, sel) :
                 sel \in RackWalk(rk, avail, actual_replication, 0, <<>>)}

\* ------------------------------------------------------------------ upload
NumShards_Uncapped(file_size) ==
    Max(MIN_SHARDS, CeilDiv(file_size, SHARD_SIZE))

NumShards(file_size) ==
    Max(MIN_SHARDS, Min(MAX_SHARDS, CeilDiv(file_size, SHARD_SIZE)))

\* the descriptors appended for shard i stored at the renters of sel
ShardDescriptors(i, sel) ==
    [j \in 1..Len(sel) |-> [renter_id |-> sel[j], shard_index |-> i,
                            replica_index |-> j - 1]]

UniqueRenters(shards) == {shards[j].renter_id : j \in 1..Len(shards)}

\* payment / total_renters (the payments of the model divide exactly)
RenterShare(payment, shards) ==
    IF Cardinality(UniqueRenters(shards)) > 0
    THEN payment \div Cardinality(UniqueRenters(shards)) ELSE 0

\* payment <= 0.0
InvalidPayment_Negative(payment) == payment < 0

InvalidPayment(payment) == payment <= 0

\* the files upload_file has in UPLOAD_DIR while it distributes the shards:
\* temp_path and the shard paths split_file_into_shards returned
ScratchFiles(f, num_shards) ==
    {<<"upload", f>>} \cup {<<"shard", i, f>> : i \in 0..(num_shards - 1)}

\* upload_file up to the call of distribute_shards_to_renters
UploadBegin(f, payment, size) ==
    /\ pc = "idle"
    /\ renters' = SweptRenters(renters, now)
    /\ racks' = SweptRacks(renters, racks, now)
    /\ IF DOMAIN renters' = {}
       THEN /\ resp' = [SweepResp EXCEPT !.op = "upload", !.status = 503,
                                          !.file = f, !.size = size,
                                          !.payment = payment]
            /\ UNCHANGED <<up, pc>>
       ELSE IF InvalidPayment(payment)
       THEN /\ resp' = [SweepResp EXCEPT !.op = "upload", !.status = 400,
                                          !.file = f, !.size = size,
                                          !.payment = payment]
            /\ UNCHANGED <<up, pc>>
       ELSE /\ up' = [filename |-> f, payment |-> payment,
                      file_size |-> size,
                      num_shards |-> NumShards(size),
                      actual_replication |->
                          Min(REPLICATION_FACTOR, Cardinality(DOMAIN renters')),
                      i |-> 0, shards |-> <<>>,
                      scratch |-> ScratchFiles(f, NumShards(size))]
            /\ pc' = "upload"
            /\ resp' = [SweepResp EXCEPT !.op = "upload-begin", !.file = f,
                                          !.size = size, !.payment = payment]
    /\ UNCHANGED <<now, shard_locations, client_public_keys, active_challenges,
                   blockchain_conn, artifacts, timers, nextNonce, issued, spent,
                   placed, rt, ledger>>

\* The inner loop of distribute_shards_to_renters for shard i: a store-shard
\* request that fails raises, a stored replica appends its descriptor.
DistributeShard_Skip(i, sel, stored) ==
    [raised |-> FALSE,
     shards |-> IF stored THEN ShardDescriptors(i, sel) ELSE <<>>]

DistributeShard(i, sel, stored) ==
    [raised |-> ~stored, shards |-> ShardDescriptors(i, sel)]

\* shard_locations after an upload that raised with the descriptors `shards`
\* collected so far: the record is only assigned after the distribution
FailedUploadIndex_Partial(filename, shards) ==
    DictSet(shard_locations, filename,
            [shards |-> shards, payment |-> 0, renter_share |-> 0,
             retrieved |-> FALSE])

FailedUploadIndex(filename, shards) == shard_locations

\* One iteration of the outer loop of distribute_shards_to_renters, and the
\* rest of upload_file after the last one; every exit runs the finally block
\* that removes temp_path and the shard files.
UploadShard(stored) ==
    /\ pc = "upload"
    /\ renters' = SweptRenters(renters, now)
    /\ racks' = SweptRacks(renters, racks, now)
    /\ IF DOMAIN renters' = {}
       THEN /\ resp' = [SweepResp EXCEPT !.op = "upload", !.status = 500,
                                          !.file = up.filename,
                                          !.size = up.file_size]
            /\ up' = NoUpload
            /\ pc' = "idle"
            /\ shard_locations' = FailedUploadIndex(up.filename, up.shards)
            /\ UNCHANGED placed
       ELSE \E sel \in SelectedRenters(renters', racks') :
            LET dist == DistributeShard(up.i, sel, stored)
                shards == up.shards \o dist.shards
            IN
            IF dist.raised
            THEN /\ resp' = [SweepResp EXCEPT !.op = "upload", !.status = 500,
                                               !.file = up.filename,
                                               !.size = up.file_size]
                 /\ up' = NoUpload
                 /\ pc' = "idle"
                 /\ shard_locations' = FailedUploadIndex(up.filename, up.shards)
                 /\ UNCHANGED placed
            ELSE IF up.i + 1 < up.num_shards
            THEN /\ up' = [up EXCEPT !.i = @ + 1, !.shards = shards]
                 /\ resp' = [SweepResp EXCEPT !.op = "upload-shard",
                                               !.file = up.filename,
                                               !.size = up.file_size]
                 /\ UNCHANGED <<pc, shard_locations, placed>>
            ELSE /\ shard_locations' = DictSet(shard_locations, up.filename,
                        [shards |-> shards, payment |-> up.payment,
                         renter_share |-> RenterShare(up.payment, shards),
                         retrieved |-> FALSE])
                 /\ placed' = DictSet(placed, up.filename, up.num_shards)
                 /\ resp' = [SweepResp EXCEPT !.op = "upload", !.status = 200,
                                               !.file = up.filename,
                                               !.size = up.file_size,
                                               !.num_shards = up.num_shards,
                                               !.replication = up.actual_replication]
                 /\ up' = NoUpload
                 /\ pc' = "idle"
    /\ UNCHANGED <<now, client_public_keys, active_challenges, blockchain_conn,
                   artifacts, timers, nextNonce, issued, spent, rt, ledger>>

\* ------------------------------------------------------- public-key registry
\* register_public_key with both fields present.  The success reply reads the
\* global server_blockchain_address, which only a successful ledger connection
\* defines; without it the NameError is answered 500 after the key was stored.
RegisterPublicKey(u) ==
    /\ pc = "idle"
    /\ client_public_keys' = client_public_keys \cup {u}
    /\ resp' = [NoResp EXCEPT !.op = "register-public-key", !.user = u,
                              !.status = IF blockchain_conn THEN 200 ELSE 500]
    /\ UNCHANGED <<now, renters, racks, shard_locations, active_challenges,
                   blockchain_conn, artifacts, timers, nextNonce, issued,
                   spent, placed, up, pc, rt, ledger>>

\* ---------------------------------------------------------------- download
ShardLess(a, b) ==
    \/ a.shard_index < b.shard_index
    \/ a.shard_index = b.shard_index /\ a.replica_index < b.replica_index

\* shards.sort(key=lambda x: (x['shard_index'], x['replica_index']))
SortShards(shards) ==
    [p \in 1..Len(shards) |->
        CHOOSE x \in Range(shards) :
            Cardinality({y \in Range(shards) : ShardLess(y, x)}) = p - 1]

\* The reconstruction loop of download_file from position j on: `got` is
\* retrieved_shards, `body` what was written to the reconstructed file so far,
\* `used` the replica_index of each body written, `alive` the renters whose
\* retrieve-shard request is answered 200.
RECURSIVE Reconstruct_All(_, _, _, _, _, _, _)
Reconstruct_All(shards, rs, alive, j, got, body, used) ==
    IF j > Len(shards)
    THEN [got |-> got, body |-> body, used |-> used]
    ELSE LET shard == shards[j] IN
         IF shard.renter_id \notin DOMAIN rs
         THEN Reconstruct_All(shards, rs, alive, j + 1, got, body, used)
         ELSE IF shard.renter_id \notin alive
         THEN Reconstruct_All(shards, rs, alive, j + 1, got, body, used)
         ELSE Reconstruct_All(shards, rs, alive, j + 1,
                              got \cup {shard.shard_index},
                              Append(body, shard.shard_index),
                              Append(used, shard.replica_index))

RECURSIVE Reconstruct(_, _, _, _, _, _, _)
Reconstruct(shards, rs, alive, j, got, body, used) ==
    IF j > Len(shards)
    THEN [got |-> got, body |-> body, used |-> used]
    ELSE LET shard == shards[j] IN
         IF shard.shard_index \in got
         THEN Reconstruct(shards, rs, alive, j + 1, got, body, used)
         ELSE IF shard.renter_id \notin DOMAIN rs
         THEN Reconstruct(shards, rs, alive, j + 1, got, body, used)
         ELSE IF shard.renter_id \notin alive
         THEN Reconstruct(shards, rs, alive, j + 1, got, body, used)
         ELSE Reconstruct(shards, rs, alive, j + 1,
                          got \cup {shard.shard_index},
                          Append(body, shard.shard_index),
                          Append(used, shard.replica_index))

ShardIndexes(shards) == {shards[j].shard_index : j \in 1..Len(shards)}

\* download_file.  The registered keys are taken to be well-formed PEM, so the
\* encryption of the nonce after it was stored does not raise.
\* len(retrieved_shards) != len(set(s['shard_index'] for s in shards))
IncompleteRetrieval_Never(got, shards) == FALSE

IncompleteRetrieval(got, shards) ==
    Cardinality(got) # Cardinality(ShardIndexes(shards))

DownloadFile(f, u, alive) ==
    /\ pc = "idle"
    /\ IF u \notin client_public_keys \/ f \notin DOMAIN shard_locations
       THEN \* the 401 and the 404 are raised inside the try: answered 500
            /\ resp' = [NoResp EXCEPT !.op = "download", !.status = 500,
                                      !.file = f, !.user = u, !.alive = alive]
            /\ UNCHANGED <<shard_locations, artifacts, active_challenges,
                           nextNonce, issued, spent>>
       ELSE LET shards == SortShards(shard_locations[f].shards)
                rec == Reconstruct(shards, renters, alive, 1, {}, <<>>, <<>>)
            IN
            /\ shard_locations' = [shard_locations EXCEPT ![f].shards = shards]
            /\ artifacts' = DictSet(artifacts, f, rec.body)
            /\ IF IncompleteRetrieval(rec.got, shards)
               THEN /\ resp' = [NoResp EXCEPT !.op = "download", !.status = 500,
                                              !.file = f, !.user = u,
                                              !.alive = alive, !.used = rec.used]
                    /\ UNCHANGED <<active_challenges, nextNonce, issued, spent>>
               ELSE /\ active_challenges' = DictSet(active_challenges, u, nextNonce)
                    /\ issued' = DictSet(issued, nextNonce,
                                         [user |-> u, file |-> f])
                    /\ spent' = DictSet(spent, nextNonce, 0)
                    /\ nextNonce' = nextNonce + 1
                    /\ resp' = [NoResp EXCEPT !.op = "download", !.status = 200,
                                              !.file = f, !.user = u,
                                              !.nonce = nextNonce,
                                              !.alive = alive, !.used = rec.used]
    /\ UNCHANGED <<now, renters, racks, client_public_keys, blockchain_conn,
                   timers, placed, up, pc, rt, ledger>>

\* ------------------------------------------------------------------ verify
\* The settlement loop of verify_challenge: one send_money attempt for every
\* descriptor whose renter is registered, when a ledger is connected.
\* failing = the positions of the send_money calls that raise.
SettlementAttempts_Abort(f, failing) ==
    IF f \notin DOMAIN shard_locations \/ ~blockchain_conn
    THEN <<>>
    ELSE LET paid == SelectSeq(shard_locations[f].shards,
                               LAMBDA s : s.renter_id \in DOMAIN renters)
             upto == IF failing \cap (1..Len(paid)) = {} THEN Len(paid)
                     ELSE CHOOSE j \in failing \cap (1..Len(paid)) :
                              \A k \in failing \cap (1..Len(paid)) : j <= k
         IN [j \in 1..upto |->
                [renter_id |-> paid[j].renter_id,
                 to |-> renters[paid[j].renter_id].blockchain_address,
                 amount |-> shard_locations[f].renter_share,
                 ok |-> j \notin failing]]

SettlementAttempts(f, failing) ==
    IF f \notin DOMAIN shard_locations \/ ~blockchain_conn
    THEN <<>>
    ELSE LET paid == SelectSeq(shard_locations[f].shards,
                               LAMBDA s : s.renter_id \in DOMAIN renters)
         IN [j \in 1..Len(paid) |->
                [renter_id |-> paid[j].renter_id,
                 to |-> renters[paid[j].renter_id].blockchain_address,
                 amount |-> shard_locations[f].renter_share,
                 ok |-> j \notin failing]]

\* stored nonce of u, NoNonce when u has no active challenge
StoredNonce(u) ==
    IF u \in DOMAIN active_challenges THEN active_challenges[u] ELSE NoNonce

VerifyFail(f, u, response) ==
    [NoResp EXCEPT !.op = "verify", !.status = 401, !.file = f, !.user = u,
                   !.nonce = response, !.stored = StoredNonce(u)]

\* response != stored_nonce
ResponseDiffers_Never(response, stored_nonce) == FALSE

ResponseDiffers(response, stored_nonce) == response # stored_nonce

\* del active_challenges[username] after a matching response
RemoveUsedChallenge_Keep(u) == active_challenges

RemoveUsedChallenge(u) == DictDel(active_challenges, {u})

\* del active_challenges[username] after a response that does not match
RemoveFailedChallenge(u) == DictDel(active_challenges, {u})

\* response = NoNonce: the request body carries no (or an empty) response
VerifyChallenge(f, u, response, failing) ==
    /\ pc = "idle"
    /\ IF u \notin client_public_keys \/ u \notin DOMAIN active_challenges
          \/ response = NoNonce
       THEN /\ resp' = VerifyFail(f, u, response)
            /\ UNCHANGED <<active_challenges, shard_locations, timers, spent>>
       ELSE IF ResponseDiffers(response, active_challenges[u])
       THEN /\ active_challenges' = RemoveFailedChallenge(u)
            /\ resp' = VerifyFail(f, u, response)
            /\ UNCHANGED <<shard_locations, timers, spent>>
       ELSE IF f \notin DOMAIN artifacts
       THEN /\ active_challenges' = RemoveUsedChallenge(u)
            /\ resp' = VerifyFail(f, u, response)
            /\ UNCHANGED <<shard_locations, timers, spent>>
       ELSE /\ active_challenges' = RemoveUsedChallenge(u)
            /\ shard_locations' =
                   IF f \in DOMAIN shard_locations
                   THEN [shard_locations EXCEPT ![f].retrieved = TRUE]
                   ELSE shard_locations
            /\ timers' = timers \cup {[file |-> f, due |-> now + TEMP_FILE_TTL]}
            /\ spent' = [spent EXCEPT ![response] = @ + 1]
            /\ resp' = [NoResp EXCEPT !.op = "verify", !.status = 200,
                                      !.file = f, !.user = u, !.nonce = response,
                                      !.stored = StoredNonce(u),
                                      !.delivered = TRUE, !.body = artifacts[f],
                                      !.sent = SettlementAttempts(f, failing)]
    /\ UNCHANGED <<now, renters, racks, client_public_keys, blockchain_conn,
                   artifacts, nextNonce, issued, placed, up, pc, rt, ledger>>

\* ------------------------------------------------------------------ delete
\* The delete-shard loop of delete_file: TRUE iff it raises.  A delete-shard
\* request that fails (renter not in `alive`) is logged and skipped.
DeleteShardsRaised_Abort(shards, alive) ==
    \E j \in 1..Len(shards) :
        /\ shards[j].renter_id \in DOMAIN SweptRenters(renters, now)
        /\ shards[j].renter_id \notin alive

DeleteShardsRaised(shards, alive) == FALSE

\* delete_file; alive = the renters that answer the delete-shard request
DeleteFile(f, alive) ==
    /\ pc = "idle"
    /\ renters' = SweptRenters(renters, now)
    /\ racks' = SweptRacks(renters, racks, now)
    /\ IF f \notin DOMAIN shard_locations
       THEN /\ resp' = [SweepResp EXCEPT !.op = "delete", !.status = 404,
                                          !.file = f, !.alive = alive]
            /\ UNCHANGED shard_locations
       ELSE IF DeleteShardsRaised(shard_locations[f].shards, alive)
       THEN /\ resp' = [SweepResp EXCEPT !.op = "delete", !.status = 500,
                                          !.file = f, !.alive = alive]
            /\ UNCHANGED shard_locations
       ELSE /\ shard_locations' = DictDel(shard_locations, {f})
            /\ resp' = [SweepResp EXCEPT !.op = "delete", !.status = 200,
                                          !.file = f, !.alive = alive]
    /\ UNCHANGED <<now, client_public_keys, active_challenges, blockchain_conn,
                   artifacts, timers, nextNonce, issued, spent, placed, up, pc, rt,
                   ledger>>

\* ------------------------------------------------------------ time, timers
\* delete_temp_file_after_delay once its sleep is over; the task needs the
\* event loop, which an upload in progress blocks.
DeleteTempFile(t) ==
    /\ pc = "idle"
    /\ t \in timers
    /\ now >= t.due
    /\ timers' = timers \ {t}
    /\ artifacts' = DictDel(artifacts, {t.file})
    /\ resp' = NoResp
    /\ UNCHANGED <<now, renters, racks, shard_locations, client_public_keys,
                   active_challenges, blockchain_conn, nextNonce, issued,
                   spent, placed, up, pc, rt, ledger>>

\* The clock advances; an idle event loop runs a due deletion task first.
Tick ==
    /\ now + TickStep <= MaxTime
    /\ pc = "idle" => \A t \in timers : t.due > now
    /\ now' = now + TickStep
    /\ resp' = NoResp
    /\ UNCHANGED <<renters, racks, shard_locations, client_public_keys,
                   active_challenges, blockchain_conn, artifacts, timers,
                   nextNonce, issued, spent, placed, up, pc, rt, ledger>>

\* --------------------------------------------------------------- file bytes
\* The bytes of one uploaded file followed through split_file_into_shards,
\* store-shard, retrieve-shard and the reconstruction loop.  A piece of the
\* file is the half-open range [lo, hi) of byte positions it holds.
NoRound == [stage |-> "none", file_size |-> 0, replication |-> 0,
            pieces |-> <<>>, descriptors |-> <<>>, blobs |-> EmptyDict,
            body |-> <<>>, delivered |-> <<>>,
            reupload |-> [file_size |-> 0, stored |-> 0]]

\* split_file_into_shards: num_shards reads of math.ceil(file_size /
\* num_shards) bytes each; a read at the end of the file is short or empty
SplitFileIntoShards_Floor(file_size, num_shards) ==
    LET shard_size == file_size \div num_shards IN
    [k \in 1..num_shards |->
        [lo |-> Min((k - 1) * shard_size, file_size),
         hi |-> Min(k * shard_size, file_size)]]

SplitFileIntoShards(file_size, num_shards) ==
    LET shard_size == CeilDiv(file_size, num_shards) IN
    [k \in 1..num_shards |->
        [lo |-> Min((k - 1) * shard_size, file_size),
         hi |-> Min(k * shard_size, file_size)]]

\* the renters of a cluster of n renters, and a selection of them for shard i
ClusterRenters(n) == SubSeq(<<"r1", "r2", "r3">>, 1, n)
SelectionFor(i, n) ==
    [k \in 1..n |-> ClusterRenters(n)[((k - 1 + i) % n) + 1]]

\* shard_name = f"shard_{i}_replica_{replica_index}_{filename}" at renter_id
BlobName(d) == <<d.renter_id, d.shard_index, d.replica_index>>

\* upload_file up to split_file_into_shards, on a cluster of n live renters
RoundSplit(file_size, n) ==
    /\ rt.stage = "none"
    /\ rt' = [rt EXCEPT !.stage = "split", !.file_size = file_size,
                        !.replication = Min(REPLICATION_FACTOR, n),
                        !.pieces = SplitFileIntoShards(file_size,
                                                       NumShards(file_size))]
    /\ UNCHANGED <<now, renters, racks, shard_locations, client_public_keys,
                   active_challenges, blockchain_conn, artifacts, timers,
                   nextNonce, issued, spent, placed, up, pc, resp, ledger>>

\* distribute_shards_to_renters with every store-shard request answered 200:
\* store_shard writes the body it receives under the name it receives
RoundDistribute ==
    /\ rt.stage = "split"
    /\ LET n == rt.replication
           descriptors ==
               [p \in 1..(Len(rt.pieces) * n) |->
                   ShardDescriptors((p - 1) \div n,
                       SelectionFor((p - 1) \div n, n))[((p - 1) % n) + 1]]
       IN rt' = [rt EXCEPT
                    !.stage = "stored",
                    !.descriptors = descriptors,
                    !.blobs = [b \in {BlobName(descriptors[p]) :
                                         p \in 1..Len(descriptors)} |->
                                  rt.pieces[b[2] + 1]]]
    /\ UNCHANGED <<now, renters, racks, shard_locations, client_public_keys,
                   active_challenges, blockchain_conn, artifacts, timers,
                   nextNonce, issued, spent, placed, up, pc, resp, ledger>>

\* download_file: the reconstructed file holds, for every body written, the
\* blob retrieve_shard read from the disk of the renter that answered
RoundDownload(alive) ==
    /\ rt.stage = "stored"
    /\ \E shards \in {SortShards(rt.descriptors)} :
       \E rec \in {Reconstruct(shards, [r \in alive |-> TRUE], alive, 1,
                                {}, <<>>, <<>>)} :
           LET from(k) == CHOOSE d \in Range(shards) :
                              /\ d.shard_index = rec.body[k]
                              /\ d.replica_index = rec.used[k]
           IN rt' = [rt EXCEPT
                        !.stage = IF IncompleteRetrieval(rec.got, shards)
                                  THEN "incomplete" ELSE "downloaded",
                        !.body = [k \in 1..Len(rec.body) |->
                                     rt.blobs[BlobName(from(k))]]]
    /\ UNCHANGED <<now, renters, racks, shard_locations, client_public_keys,
                   active_challenges, blockchain_conn, artifacts, timers,
                   nextNonce, issued, spent, placed, up, pc, resp, ledger>>

\* verify_challenge with the matching response: FileResponse of the
\* reconstructed file
RoundVerify ==
    /\ rt.stage = "downloaded"
    /\ rt' = [rt EXCEPT !.stage = "done", !.delivered = rt.body]
    /\ UNCHANGED <<now, renters, racks, shard_locations, client_public_keys,
                   active_challenges, blockchain_conn, artifacts, timers,
                   nextNonce, issued, spent, placed, up, pc, resp, ledger>>

\* The bytes of a later upload of the same filename are other bytes than
\* those of the first: their positions are counted on from the end of the
\* first file.
LaterPieces(first_size, file_size) ==
    LET pieces == SplitFileIntoShards(file_size, NumShards(file_size)) IN
    [k \in 1..Len(pieces) |-> [lo |-> first_size + pieces[k].lo,
                               hi |-> first_size + pieces[k].hi]]

\* the store-shard requests of distribute_shards_to_renters for num_shards
\* shards on the cluster of n renters, in the order they are sent
StoreRequests(num_shards, n) ==
    [p \in 1..(num_shards * n) |->
        ShardDescriptors((p - 1) \div n,
                         SelectionFor((p - 1) \div n, n))[((p - 1) % n) + 1]]

\* upload_file of the filename already placed, with a file of file_size
\* bytes: the first `stored` store-shard requests are answered 200 (store_shard
\* opens the blob name 'wb'), the next one fails, distribute_shards_to_renters
\* raises and the placement record of the first upload stays.
RoundFailedReupload(file_size, stored) ==
    /\ rt.stage = "stored"
    /\ rt.reupload.stored = 0
    /\ \E pieces \in {LaterPieces(rt.file_size, file_size)} :
       \E requests \in {StoreRequests(Len(pieces), rt.replication)} :
           /\ stored \in 1..(Len(requests) - 1)
           /\ LET written == {BlobName(requests[p]) : p \in 1..stored} IN
              rt' = [rt EXCEPT
                        !.reupload = [file_size |-> file_size,
                                      stored |-> stored],
                        !.blobs = [b \in DOMAIN rt.blobs \cup written |->
                                      IF b \in written THEN pieces[b[2] + 1]
                                      ELSE rt.blobs[b]]]
    /\ UNCHANGED <<now, renters, racks, shard_locations, client_public_keys,
                   active_challenges, blockchain_conn, artifacts, timers,
                   nextNonce, issued, spent, placed, up, pc, resp, ledger>>

\* delete_shard of src/renter.py for the blob `name`: the 404 for a file that
\* does not exist is raised inside the try and answered 500
RenterDeleteShard(name) ==
    /\ rt.stage \in {"stored", "deleted"}
    /\ IF name \in DOMAIN rt.blobs
       THEN /\ rt' = [rt EXCEPT !.stage = "deleted",
                                !.blobs = DictDel(rt.blobs, {name})]
            /\ resp' = [NoResp EXCEPT !.op = "delete-shard", !.status = 200,
                                      !.blob = name]
       ELSE /\ rt' = [rt EXCEPT !.stage = "deleted"]
            /\ resp' = [NoResp EXCEPT !.op = "delete-shard", !.status = 500,
                                      !.blob = name]
    /\ UNCHANGED <<now, renters, racks, shard_locations, client_public_keys,
                   active_challenges, blockchain_conn, artifacts, timers,
                   nextNonce, issued, spent, placed, up, pc, ledger>>

\* ------------------------------------------------------------------ ledger
\* src/blockchain/BlockchainServer.py is served by rpyc's ThreadedServer: one
\* thread per connection.  Every call reads the wallets from blockchain.json
\* and writes them back, with no lock: the calls of different connections
\* interleave between a read and the write that follows it.
Connections == {"c1", "c2"}

NoCall == [pc |-> "idle", result |-> "", username |-> "", balance |-> 0,
           sender |-> "", receiver |-> "", amount |-> 0, wallets |-> EmptyDict]

\* wallets: the "wallets" field of blockchain.json; initial: the balance each
\* created account was created with (history); calls: the call each
\* connection thread is in
NoLedger == [wallets |-> EmptyDict, initial |-> EmptyDict,
             calls |-> [c \in Connections |-> NoCall]]

\* wallets.get(address, 0.0)
Balance(wallets, address) ==
    IF address \in DOMAIN wallets THEN wallets[address] ELSE 0

\* the frame of the ledger server: the coordinator is a different process
LedgerFrame ==
    UNCHANGED <<now, renters, racks, shard_locations, client_public_keys,
                active_challenges, blockchain_conn, artifacts, timers,
                nextNonce, issued, spent, placed, up, pc, resp, rt>>

\* exposed_create_account up to account_exists(): an existing account raises
\* AccountExists and its address is returned
CreateAccountExists(c, username, balance) ==
    /\ ledger.calls[c].pc = "idle"
    /\ ledger' = [ledger EXCEPT !.calls[c] =
           IF username \in DOMAIN ledger.wallets
           THEN [NoCall EXCEPT !.result = "exists", !.username = username]
           ELSE [NoCall EXCEPT !.pc = "create-checked",
                               !.username = username, !.balance = balance]]
    /\ LedgerFrame

\* _save_account: wallets = self._load_wallets(); wallets[address] = balance
CreateAccountLoad(c) ==
    /\ ledger.calls[c].pc = "create-checked"
    /\ ledger' = [ledger EXCEPT !.calls[c] =
           [ledger.calls[c] EXCEPT
               !.pc = "create-loaded",
               !.wallets = DictSet(ledger.wallets, ledger.calls[c].username,
                                   ledger.calls[c].balance)]]
    /\ LedgerFrame

\* _save_wallets: the wallets of the thread replace those of the file
CreateAccountSave(c) ==
    /\ ledger.calls[c].pc = "create-loaded"
    /\ ledger' = [ledger EXCEPT
           !.wallets = ledger.calls[c].wallets,
           !.initial = DictSet(@, ledger.calls[c].username,
                               ledger.calls[c].balance),
           !.calls[c] = [NoCall EXCEPT !.result = "created",
                                       !.username = ledger.calls[c].username]]
    /\ LedgerFrame

\* the wallets exposed_send_money computes from those it loaded
MovedWallets(wallets, sender, receiver, amount) ==
    LET debited == DictSet(wallets, sender, Balance(wallets, sender) - amount)
    IN DictSet(debited, receiver, Balance(debited, receiver) + amount)

\* exposed_send_money up to the update of its own copy of the wallets; an
\* insufficient balance raises
SendMoneyLoad(c, sender, receiver, amount) ==
    /\ ledger.calls[c].pc = "idle"
    /\ ledger' = [ledger EXCEPT !.calls[c] =
           IF Balance(ledger.wallets, sender) < amount
           THEN [NoCall EXCEPT !.result = "failed", !.sender = sender,
                               !.receiver = receiver, !.amount = amount]
           ELSE [NoCall EXCEPT !.pc = "send-loaded", !.sender = sender,
                               !.receiver = receiver, !.amount = amount,
                               !.wallets = MovedWallets(ledger.wallets, sender,
                                                        receiver, amount)]]
    /\ LedgerFrame

\* data["wallets"] = wallets; json.dump(data, f); the receipt is returned
SendMoneySave(c) ==
    /\ ledger.calls[c].pc = "send-loaded"
    /\ ledger' = [ledger EXCEPT
           !.wallets = ledger.calls[c].wallets,
           !.calls[c] = [ledger.calls[c] EXCEPT !.pc = "idle",
                                                !.result = "sent",
                                                !.wallets = EmptyDict]]
    /\ LedgerFrame

\* ----------------------------------------------------------- specification
\* the ledger address a renter process was started with (src/renter.py sends
\* the same blockchain_address in its registration and in every heartbeat)
RenterAddress(r) == IF r = "r1" THEN "addr_r1" ELSE NoAddr

Init ==
    /\ now = 0
    /\ renters = EmptyDict
    /\ racks = [k \in RackIds |-> {}]
    /\ shard_locations = EmptyDict
    /\ client_public_keys = {}
    /\ active_challenges = EmptyDict
    /\ blockchain_conn \in BOOLEAN
    /\ artifacts = EmptyDict
    /\ timers = {}
    /\ nextNonce = 1
    /\ issued = EmptyDict
    /\ spent = EmptyDict
    /\ placed = EmptyDict
    /\ up = NoUpload
    /\ pc = "idle"
    /\ resp = NoResp
    /\ rt = NoRound
    /\ ledger = NoLedger

\* The requests of the renters RS and of the clients US on the files FS, with
\* file sizes SS, payments PS, ledger failures FAILS and at most NN challenges.
Requests(RS, FS, US, SS, PS, FAILS, NN) ==
    \/ \E r \in RS : RegisterRenter(r, RenterAddress(r))
    \/ \E r \in RS : ReceiveHeartbeat(r, RenterAddress(r))
    \/ GetRenters
    \/ \E f \in FS : \E p \in PS : \E size \in SS : UploadBegin(f, p, size)
    \/ \E stored \in BOOLEAN : UploadShard(stored)
    \/ \E u \in US : RegisterPublicKey(u)
    \/ nextNonce <= NN /\ \E f \in FS : \E u \in US : \E alive \in SUBSET RS :
           DownloadFile(f, u, alive)
    \/ \E f \in FS : \E u \in US : \E response \in 0..NN :
           \E failing \in FAILS : VerifyChallenge(f, u, response, failing)
    \/ \E f \in FS : \E alive \in SUBSET RS : DeleteFile(f, alive)
    \/ \E t \in timers : DeleteTempFile(t)
    \/ Tick

\* retrieval and settlement: one renter, one file, two users
Next == Requests({"r1"}, {"f"}, {"u1", "u2"}, {1}, {0, 60}, {{}, {2}}, MaxNonce)

Spec == Init /\ [][Next]_vars

\* placement under membership churn: two renters, one file
NextPlace ==
    Requests({"r1", "r2"}, {"f"}, {"u1"}, {1}, {60}, {{}}, MaxNoncePlace)

SpecPlace == Init /\ [][NextPlace]_vars

\* two files of one user on one renter, no clock
NextBind ==
    \/ RegisterRenter("r1", RenterAddress("r1"))
    \/ \E f \in {"f", "g"} : UploadBegin(f, 60, 1)
    \/ UploadShard(TRUE)
    \/ RegisterPublicKey("u1")
    \/ nextNonce <= MaxNonce /\ \E f \in {"f", "g"} : DownloadFile(f, "u1", {"r1"})
    \/ \E f \in {"f", "g"} : \E response \in 0..MaxNonce :
           VerifyChallenge(f, "u1", response, {})

SpecBind == Init /\ [][NextBind]_vars

\* Membership changes followed by one upload on a cluster whose clock stands
\* still: r1 registers any number of times, the other renters once.
NextRack ==
    \/ /\ DOMAIN shard_locations = {}
       /\ \E r \in {"r1", "r2", "r3", "r4"} :
              /\ r = "r1" \/ r \notin DOMAIN renters
              /\ RegisterRenter(r, RenterAddress(r))
    \/ /\ DOMAIN shard_locations = {}
       /\ UploadBegin("f", 60, 1)
    \/ UploadShard(TRUE)

SpecRack == Init /\ [][NextRack]_vars

\* One file of every size in RoundSizes uploaded to an idle cluster of one to
\* three renters and downloaded while the renters of `alive` answer.
RoundSizes ==
    (1..MaxSmallSize)
        \cup {m * SHARD_SIZE + d : m \in 1..MaxMiB, d \in {0 - 1, 0, 1}}

NextRound ==
    \/ \E file_size \in RoundSizes : \E n \in 1..REPLICATION_FACTOR :
           RoundSplit(file_size, n)
    \/ RoundDistribute
    \/ \E alive \in SUBSET Range(ClusterRenters(rt.replication)) :
           RoundDownload(alive)
    \/ RoundVerify

SpecRound == Init /\ [][NextRound]_vars

\* One renter, one client and files of several sizes: empty, one byte, and
\* around MIN_SHARDS, MAX_SHARDS and MaxMiB times SHARD_SIZE.
UploadSizes ==
    {0, 1} \cup {m * SHARD_SIZE + d :
                    m \in {MIN_SHARDS, MAX_SHARDS, MaxMiB}, d \in {0, 1}}

NextSize == Requests({"r1"}, {"f"}, {"u1"}, UploadSizes, {60}, {{}}, MaxNoncePlace)
SpecSize == Init /\ [][NextSize]_vars

\* A deletion task started now sleeps TEMP_FILE_TTL seconds; the clock of the
\* model can still reach the moment it wakes.
CanExpire ==
    \E k \in 1..MaxTime :
        /\ now + k * TickStep <= MaxTime
        /\ k * TickStep >= TEMP_FILE_TTL

\* One renter, one client, one file.  Downloads and verifications arrive
\* only while the clock can still run past the time to live of what they
\* create.
NextLive ==
    \/ RegisterRenter("r1", RenterAddress("r1"))
    \/ UploadBegin("f", 60, 1)
    \/ \E stored \in BOOLEAN : UploadShard(stored)
    \/ RegisterPublicKey("u1")
    \/ /\ nextNonce <= MaxNoncePlace
       /\ CanExpire
       /\ \E alive \in SUBSET {"r1"} : DownloadFile("f", "u1", alive)
    \/ /\ CanExpire
       /\ \E response \in 0..MaxNoncePlace : VerifyChallenge("f", "u1", response, {})
    \/ \E t \in timers : DeleteTempFile(t)
    \/ Tick

\* The scheduling the event loop gives: time passes, a handler that has
\* started runs to its end, and a delete_temp_file_after_delay task whose
\* sleep is over runs.  No request is ever bound to arrive.
SpecLive ==
    /\ Init /\ [][NextLive]_vars
    /\ WF_vars(Tick)
    /\ WF_vars(\E stored \in BOOLEAN : UploadShard(stored))
    /\ SF_vars(\E t \in timers : DeleteTempFile(t))

\* The renter process of src/renter.py.  RENTER_ID, the id its heartbeats
\* carry, is the renter id r of the model; register_with_server draws a
\* second uuid4 for the registration it sends.
RegistrationId(r) == IF r = "r1" THEN "r1_registration" ELSE "r2_registration"

\* registration_data of register_with_server
RegistrationData(r) ==
    [renter_id |-> RegistrationId(r), ip_address |-> "local_ip", port |-> 8001,
     blockchain_address |-> RenterAddress(r), storage_available |-> 5]

\* register_with_server, called once by lifespan before the heartbeat thread
\* is started
RegisterWithServer(r) == RegisterRenterInfo(RegistrationData(r))

\* Membership alone: renters that register under the id they heartbeat with
\* (src/renter_gui.py), renter processes of src/renter.py starting up,
\* heartbeats with and without a ledger address, sweeps and the clock.
NextMember ==
    \/ \E r \in {"r1", "r2"} : RegisterRenter(r, RenterAddress(r))
    \/ \E r \in {"r1", "r2"} : RegisterWithServer(r)
    \/ \E r \in {"r1", "r2"} : \E addr \in {RenterAddress(r), NoAddr} :
           ReceiveHeartbeat(r, addr)
    \/ GetRenters
    \/ Tick

SpecMember == Init /\ [][NextMember]_vars

\* The renters' disks: small files stored on one or two renters, a second
\* upload of the same name that fails part-way, downloads, and delete-shard
\* requests for the blob names of the placement.
NextStore ==
    \/ \E file_size \in 1..MaxSmallSize : \E n \in 1..2 :
           RoundSplit(file_size, n)
    \/ RoundDistribute
    \/ \E file_size \in 1..MaxSmallSize :
           \E stored \in 1..(MIN_SHARDS * 2) :
               RoundFailedReupload(file_size, stored)
    \/ \E alive \in SUBSET Range(ClusterRenters(rt.replication)) :
           RoundDownload(alive)
    \/ RoundVerify
    \/ \E d \in Range(rt.descriptors) : RenterDeleteShard(BlobName(d))

SpecStore == Init /\ [][NextStore]_vars

\* The ledger server with two connections, two accounts and transfers the
\* sender can and cannot afford.
LedgerAccounts == {"a", "b"}
LedgerBalances == {0, 10}
LedgerAmounts == {5, 20}

NextLedger ==
    \/ \E c \in Connections : \E username \in LedgerAccounts :
           \E balance \in LedgerBalances :
               CreateAccountExists(c, username, balance)
    \/ \E c \in Connections : CreateAccountLoad(c)
    \/ \E c \in Connections : CreateAccountSave(c)
    \/ \E c \in Connections : \E sender, receiver \in LedgerAccounts :
           \E amount \in LedgerAmounts :
               SendMoneyLoad(c, sender, receiver, amount)
    \/ \E c \in Connections : SendMoneySave(c)

SpecLedger == Init /\ [][NextLedger]_vars

TypeOK ==
    /\ now \in 0..MaxTime
    /\ pc \in {"idle", "upload"}

\* ------------------------------------------------------------------ claims
VerifyDone == resp.op = "verify"
VerifyDelivered == resp.op = "verify" /\ resp.status = 200
VerifyStep == resp'.op = "verify"

RECURSIVE SumAmounts(_)
SumAmounts(sent) ==
    IF sent = <<>> THEN 0 ELSE Head(sent).amount + SumAmounts(Tail(sent))

Replicas(shards, i) == {j \in 1..Len(shards) : shards[j].shard_index = i}

\* C1: after a verify-challenge call for a user who has an outstanding
\* challenge, whatever the response (matching, different, missing), the
\* user's entry is gone from the active-challenge table.
C1_ChallengeAlwaysConsumed ==
    [][(VerifyStep /\ resp'.user \in DOMAIN active_challenges)
          => resp'.user \notin DOMAIN active_challenges']_vars

\* C2: no nonce is verified successfully more than once, and a verify that
\* presents an issued nonce which is no longer the outstanding nonce of its
\* user (verified, consumed or overwritten by a newer download) fails 401.
C2_NonceSingleUse ==
    /\ [](\A n \in DOMAIN spent : spent[n] <= 1)
    /\ [][(VerifyStep /\ resp'.nonce \in DOMAIN issued
             /\ StoredNonce(issued[resp'.nonce].user) # resp'.nonce)
          => (resp'.status = 401 /\ ~resp'.delivered)]_vars

\* a nonce was verified once and its replay was refused
C2_Witness ==
    /\ VerifyDone /\ resp.status = 401
    /\ resp.nonce \in DOMAIN spent
    /\ spent[resp.nonce] = 1

\* C3: a verify-challenge for file F delivers F only if the presented nonce
\* was issued by a download request for F.
C3_ProofBoundToDownload ==
    VerifyDelivered => issued[resp.nonce].file = resp.file

\* C4: a verify whose response differs from the stored nonce is answered 401,
\* delivers nothing, attempts no transfer and leaves the placement index as
\* it was; a record is inserted with retrieved = FALSE and the flag turns
\* TRUE only in a verify step for that file whose response equals the
\* stored nonce.
C4_MismatchHasNoEffect ==
    /\ [][(VerifyStep /\ resp'.user \in DOMAIN active_challenges
             /\ resp'.nonce # active_challenges[resp'.user])
          => (/\ resp'.status = 401
              /\ ~resp'.delivered
              /\ resp'.sent = <<>>
              /\ shard_locations' = shard_locations)]_vars
    /\ [][\A f \in DOMAIN shard_locations' :
            (/\ shard_locations'[f].retrieved
             /\ f \in DOMAIN shard_locations => ~shard_locations[f].retrieved)
            => (/\ VerifyStep
                /\ resp'.file = f
                /\ resp'.user \in DOMAIN active_challenges
                /\ resp'.nonce = active_challenges[resp'.user])]_vars

\* a wrong, non-empty response met a stored nonce and was refused
C4_Witness ==
    /\ VerifyDone /\ resp.status = 401
    /\ resp.stored # NoNonce
    /\ resp.nonce # NoNonce
    /\ resp.nonce # resp.stored

\* C5: with a ledger connected, a successful verify makes exactly one
\* send_money attempt for every registered renter of the placement whose
\* ledger address is known, and none for any other renter.
C5_OneAttemptPerRenter ==
    (VerifyDelivered /\ blockchain_conn /\ resp.file \in DOMAIN shard_locations)
    => \A r \in UniqueRenters(shard_locations[resp.file].shards) :
          Cardinality({j \in 1..Len(resp.sent) : resp.sent[j].renter_id = r})
          = IF r \in DOMAIN renters /\ renters[r].blockchain_address # NoAddr
            THEN 1 ELSE 0

\* C6: a successful verify on a placement record whose retrieved flag is
\* already TRUE attempts no transfer.
C6_SettledOnce ==
    [][(/\ VerifyStep /\ resp'.status = 200
        /\ resp'.file \in DOMAIN shard_locations
        /\ shard_locations[resp'.file].retrieved)
       => resp'.sent = <<>>]_vars

\* C7: per_renter_share x |unique renters| <= total payment for every record,
\* and the amounts passed to send_money while settling a file sum to at most
\* the file's total payment.
C7_NoOverPayment ==
    /\ \A f \in DOMAIN shard_locations :
          shard_locations[f].renter_share
              * Cardinality(UniqueRenters(shard_locations[f].shards))
          <= shard_locations[f].payment
    /\ (VerifyDelivered /\ resp.file \in DOMAIN shard_locations)
          => SumAmounts(resp.sent) <= shard_locations[resp.file].payment

\* C8: a verify whose response equals the stored nonce and whose artifact is
\* staged delivers the artifact, with or without a ledger, and with a ledger
\* it attempts a transfer for every descriptor of a registered renter,
\* whichever of the earlier transfers failed.
C8_SettlementFaultTolerant ==
    [][(/\ VerifyStep
        /\ resp'.user \in DOMAIN active_challenges
        /\ resp'.nonce = active_challenges[resp'.user]
        /\ resp'.file \in DOMAIN artifacts)
       => (/\ resp'.status = 200
           /\ resp'.delivered
           /\ resp'.body = artifacts[resp'.file]
           /\ Len(resp'.sent) =
                 IF blockchain_conn /\ resp'.file \in DOMAIN shard_locations
                 THEN Cardinality({j \in 1..Len(shard_locations[resp'.file].shards) :
                         shard_locations[resp'.file].shards[j].renter_id
                             \in DOMAIN renters})
                 ELSE 0)]_vars

\* a transfer failed, a later one was still attempted, the body was delivered
C8_Witness ==
    /\ VerifyDelivered /\ resp.delivered
    /\ \E j \in 1..Len(resp.sent) : ~resp.sent[j].ok /\ j < Len(resp.sent)

\* C9: every placement record has at least one descriptor for each shard
\* index of 0..N-1, N the num_shards of the upload that inserted it.
C9_EveryShardPlaced ==
    \A f \in DOMAIN shard_locations :
        /\ f \in DOMAIN placed
        /\ \A i \in 0..(placed[f] - 1) :
              Replicas(shard_locations[f].shards, i) # {}

\* a record inserted by an upload during which a renter timed out
C9_Witness ==
    \E f \in DOMAIN shard_locations :
        LET shards == shard_locations[f].shards IN
        Cardinality(Replicas(shards, 0)) > Cardinality(Replicas(shards, 2))

\* C10: after a successful upload every shard index of the record has exactly
\* replication_factor (of the response) descriptors, on distinct renters.
C10_ReplicationFixedAtStart ==
    (resp.op = "upload" /\ resp.status = 200)
    => LET shards == shard_locations[resp.file].shards IN
       \A i \in ShardIndexes(shards) :
          /\ Cardinality(Replicas(shards, i)) = resp.replication
          /\ Cardinality({shards[j].renter_id : j \in Replicas(shards, i)})
                = resp.replication


\* the rack labels that contain a registered renter, in the rack index and in
\* the renters' records
RackLabelsInUse == {k \in RackIds : racks[k] \cap DOMAIN renters # {}}
RecordedRacks == {renters[r].rack_id : r \in DOMAIN renters}
EffectiveReplication == Min(REPLICATION_FACTOR, Cardinality(DOMAIN renters))

\* C11: when at least R_effective rack labels contain a live renter, the
\* replicas of every shard of a completed upload are on renters whose
\* recorded rack labels are pairwise different.
C11_RackSpread ==
    (/\ resp.op = "upload" /\ resp.status = 200
     /\ Cardinality(RackLabelsInUse) >= EffectiveReplication
     /\ Cardinality(RecordedRacks) >= EffectiveReplication)
    => LET shards == shard_locations[resp.file].shards IN
       \A j1, j2 \in 1..Len(shards) :
           (j1 # j2 /\ shards[j1].shard_index = shards[j2].shard_index)
           => renters[shards[j1].renter_id].rack_id
                  # renters[shards[j2].renter_id].rack_id

\* the replicas of shard i whose renter is registered and answers
Fetchable(shards, i, alive) ==
    {j \in Replicas(shards, i) : shards[j].renter_id \in DOMAIN renters \cap alive}

FirstFetchable(shards, i, alive) ==
    LET F == Fetchable(shards, i, alive) IN
    shards[CHOOSE j \in F :
               \A k \in F : shards[j].replica_index <= shards[k].replica_index]

\* a download request of a user with a registered key for a placed file
DownloadStep ==
    /\ resp'.op = "download"
    /\ resp'.user \in client_public_keys
    /\ resp'.file \in DOMAIN shard_locations

\* C12: a download for which every shard index has a replica whose renter is
\* registered and answers succeeds; it writes exactly one body per shard
\* index, in increasing shard_index order, and the body of a shard comes from
\* the answering replica of lowest replica_index.
C12_ReconstructionToleratesLoss ==
    [][LET shards == shard_locations[resp'.file].shards
           n == Cardinality(ShardIndexes(shards))
       IN (/\ DownloadStep
           /\ \A i \in ShardIndexes(shards) :
                  Fetchable(shards, i, resp'.alive) # {})
          => /\ resp'.status = 200
             /\ resp'.user \in DOMAIN active_challenges'
             /\ active_challenges'[resp'.user] = resp'.nonce
             /\ artifacts'[resp'.file] = [k \in 1..n |-> k - 1]
             /\ resp'.used =
                    [k \in 1..n |->
                        FirstFetchable(shards, k - 1, resp'.alive).replica_index]
      ]_vars

\* a download succeeded reading some shard from its second replica
C12_Witness ==
    /\ resp.op = "download" /\ resp.status = 200
    /\ \E k \in 1..Len(resp.used) : resp.used[k] = 1

\* C14: a download for which some shard index has no fetchable replica is
\* answered 500, stores no nonce and leaves the placement records unchanged;
\* a delete of a filename that has a placement record answers 200 and removes
\* the record.
C14_IncompleteDownload ==
    /\ [][LET shards == shard_locations[resp'.file].shards IN
          (/\ DownloadStep
           /\ \E i \in ShardIndexes(shards) :
                  Fetchable(shards, i, resp'.alive) = {})
          => /\ resp'.status = 500
             /\ active_challenges' = active_challenges
             /\ nextNonce' = nextNonce
             /\ shard_locations' = shard_locations]_vars
    /\ [][(resp'.op = "delete" /\ resp'.file \in DOMAIN shard_locations)
          => /\ resp'.status = 200
             /\ resp'.file \notin DOMAIN shard_locations']_vars

\* an incomplete download left the placement record in place
C14_Witness ==
    /\ resp.op = "download" /\ resp.status = 500
    /\ resp.user \in client_public_keys
    /\ resp.file \in DOMAIN shard_locations
    /\ Len(resp.used) < Cardinality(ShardIndexes(shard_locations[resp.file].shards))

\* the renter a download fetched its k-th body from
FetchedFrom(k) ==
    LET shards == shard_locations[resp.file].shards
        j == CHOOSE j \in 1..Len(shards) :
                 /\ shards[j].shard_index = artifacts[resp.file][k]
                 /\ shards[j].replica_index = resp.used[k]
    IN shards[j].renter_id

\* C15: every renter a download fetches a shard from has a last heartbeat no
\* older than RENTER_TIMEOUT at the time of the download.
C15_RetrievalAgainstSweptMembership ==
    (resp.op = "download" /\ Len(resp.used) > 0)
    => \A k \in 1..Len(resp.used) :
           /\ FetchedFrom(k) \in DOMAIN renters
           /\ now - renters[FetchedFrom(k)].last_heartbeat <= RENTER_TIMEOUT

\* the position up to which the pieces of body, joined in order, equal the
\* uploaded bytes from position pos on; -1 when they do not
RECURSIVE Joined(_, _)
Joined(body, pos) ==
    IF body = <<>> THEN pos
    ELSE IF Head(body).lo = Head(body).hi THEN Joined(Tail(body), pos)
    ELSE IF Head(body).lo = pos THEN Joined(Tail(body), Head(body).hi)
    ELSE 0 - 1

\* C13: the body delivered after upload, download and verify on an idle
\* cluster is byte for byte the uploaded file, for every file size (hence
\* shard count) and whichever answering replica each shard is read from.
C13_RoundTrip ==
    rt.stage = "done" => Joined(rt.delivered, 0) = rt.file_size

\* a file of MAX_SHARDS shards whose size is no multiple of the shard count
\* came back from a cluster that holds several replicas of every shard
C13_Witness ==
    /\ rt.stage = "done"
    /\ Len(rt.delivered) = MAX_SHARDS
    /\ rt.file_size % MAX_SHARDS # 0
    /\ rt.replication > 1

\* C16: every registered renter is in a rack set, and a renter whose last
\* heartbeat is no older than RENTER_TIMEOUT when a request is handled is
\* still in the membership table and in a rack set after the request,
\* whatever the request is.
C16_HeartbeatingRenterStays ==
    /\ [](\A r \in DOMAIN renters : \E k \in RackIds : r \in racks[k])
    /\ [][\A r \in DOMAIN renters :
              now - renters[r].last_heartbeat <= RENTER_TIMEOUT
              => /\ r \in DOMAIN renters'
                 /\ \E k \in RackIds : r \in racks'[k]]_vars

\* a sweep removed a renter and kept one whose heartbeat had been refreshed
C16_Witness ==
    /\ resp.swept # {}
    /\ \E r \in DOMAIN renters :
           /\ renters[r].last_heartbeat > 0
           /\ \E k \in RackIds : r \in racks[k]

\* a request whose handler calls cleanup_inactive_renters
SweepStep ==
    resp'.op \in {"get-renters", "delete", "upload", "upload-begin",
                  "upload-shard"}

Expired == {r \in DOMAIN renters : now - renters[r].last_heartbeat > RENTER_TIMEOUT}

\* C17: a sweep removes from the membership table exactly the renters whose
\* heartbeat is older than RENTER_TIMEOUT and removes them from every rack
\* set; an upload that starts after it computes its replication from the
\* renters left, and every shard it places goes to that many of them.
C17_SweepRemovesExactlyExpired ==
    [][SweepStep =>
          /\ DOMAIN renters' = DOMAIN renters \ Expired
          /\ \A r \in DOMAIN renters' : renters'[r] = renters[r]
          /\ \A k \in RackIds : racks'[k] = racks[k] \ Expired
          /\ resp'.op = "upload-begin"
             => up'.actual_replication =
                    Min(REPLICATION_FACTOR, Cardinality(DOMAIN renters \ Expired))
          /\ resp'.op = "upload-shard"
             => /\ Len(up'.shards) - Len(up.shards) =
                       Min(REPLICATION_FACTOR, Cardinality(DOMAIN renters \ Expired))
                /\ UniqueRenters(up'.shards) \ UniqueRenters(up.shards)
                       \subseteq DOMAIN renters \ Expired
          /\ (resp'.op = "upload" /\ resp'.status = 200)
             => LET shards == shard_locations'[resp'.file].shards IN
                /\ Len(shards) - Len(up.shards) =
                       Min(REPLICATION_FACTOR, Cardinality(DOMAIN renters \ Expired))
                /\ UniqueRenters(shards) \ UniqueRenters(up.shards)
                       \subseteq DOMAIN renters \ Expired
      ]_vars

\* an upload request swept an expired renter and goes on with replication 1
C17_Witness ==
    /\ resp.op = "upload-begin"
    /\ resp.swept # {}
    /\ Cardinality(DOMAIN renters) = 1
    /\ up.actual_replication = 1

\* C18: registering a renter_id that is in the membership table answers 200,
\* keeps the table's key set, sets that renter's last_heartbeat to now and
\* changes neither another renter's record nor any placement record.
C18_ReRegistration ==
    [][(resp'.op = "register" /\ resp'.renter \in DOMAIN renters)
       => /\ resp'.status = 200
          /\ DOMAIN renters' = DOMAIN renters
          /\ renters'[resp'.renter].last_heartbeat = now
          /\ \A q \in DOMAIN renters \ {resp'.renter} : renters'[q] = renters[q]
          /\ shard_locations' = shard_locations]_vars

\* a renter named by a placement record registered again at a later time
\* while it was in the table (it is in two rack sets)
C18_Witness ==
    /\ resp.op = "register"
    /\ now > 0
    /\ renters[resp.renter].last_heartbeat = now
    /\ Cardinality({k \in RackIds : resp.renter \in racks[k]}) > 1
    /\ \E f \in DOMAIN shard_locations :
           resp.renter \in UniqueRenters(shard_locations[f].shards)

\* C19: a heartbeat for a renter_id that is not in the membership table is
\* answered 404 and changes neither the membership table nor the rack sets.
C19_UnknownHeartbeat ==
    [][(resp'.op = "heartbeat" /\ resp'.renter \notin DOMAIN renters)
       => /\ resp'.status = 404
          /\ renters' = renters
          /\ racks' = racks]_vars

\* C20: a download request of a username without a registered key is
\* answered 401, stores no challenge, fetches from no renter and writes no
\* reconstructed file.
C20_UnregisteredDownload ==
    [][(resp'.op = "download" /\ resp'.user \notin client_public_keys)
       => /\ resp'.status = 401
          /\ active_challenges' = active_challenges
          /\ resp'.used = <<>>
          /\ artifacts' = artifacts]_vars

\* C21: a delete answers 200 exactly when the filename has a placement
\* record and 404 otherwise; after it the filename has no record, whichever
\* renters answer the delete-shard requests; and only a completed upload
\* gives a filename a record, so a second delete without an upload in between
\* answers 404.
C21_DeleteIffRecorded ==
    /\ [][resp'.op = "delete"
          => /\ resp'.status = 200 <=> resp'.file \in DOMAIN shard_locations
             /\ resp'.status # 200 => resp'.status = 404
             /\ resp'.file \notin DOMAIN shard_locations'
             /\ \A g \in DOMAIN shard_locations \ {resp'.file} :
                    /\ g \in DOMAIN shard_locations'
                    /\ shard_locations'[g] = shard_locations[g]]_vars
    /\ [][\A g \in DOMAIN shard_locations' \ DOMAIN shard_locations :
              resp'.op = "upload" /\ resp'.status = 200 /\ resp'.file = g]_vars

\* a delete removed the record although the registered renter that holds the
\* shards did not answer the delete-shard requests
C21_Witness ==
    /\ resp.op = "delete" /\ resp.status = 200
    /\ DOMAIN renters # {}
    /\ resp.alive = {}
    /\ resp.file \in DOMAIN placed
    /\ resp.file \notin DOMAIN shard_locations

\* a step of an upload request: its start, one shard, or its reply
UploadStep == resp'.op \in {"upload", "upload-begin", "upload-shard"}

\* C22: an upload changes the placement index only in the step that answers
\* 200: an upload that answers 503, 400 or 500 leaves every record, an
\* earlier record of the same filename included, as it was.
C22_FailedUploadKeepsIndex ==
    [][(UploadStep /\ ~(resp'.op = "upload" /\ resp'.status = 200))
       => shard_locations' = shard_locations]_vars

\* an upload failed while the filename had a record, already retrieved, from
\* an earlier upload
C22_Witness ==
    /\ resp.op = "upload" /\ resp.status = 500
    /\ resp.file \in DOMAIN shard_locations
    /\ shard_locations[resp.file].retrieved

\* the step in which upload_file starts handling a request
UploadRequest == pc = "idle" /\ UploadStep

\* C23 as stated: an upload request with payment <= 0 is answered 400, stages
\* no file, contacts no renter and leaves the placement index unchanged.
C23_NonPositivePaymentIsBadRequest ==
    [][(UploadRequest /\ resp'.payment <= 0)
       => /\ resp'.status = 400
          /\ up' = NoUpload /\ pc' = "idle"
          /\ shard_locations' = shard_locations]_vars

\* C23 amended: an upload request with payment <= 0 is rejected without
\* staging a file, contacting a renter or changing the placement index; the
\* answer is 400 when a renter is left after the sweep and 503 when none is.
C23_NonPositivePaymentRejected ==
    [][(UploadRequest /\ resp'.payment <= 0)
       => /\ resp'.status = IF DOMAIN renters' = {} THEN 503 ELSE 400
          /\ up' = NoUpload /\ pc' = "idle"
          /\ shard_locations' = shard_locations]_vars

\* an upload with payment exactly 0 was answered 400
C23_Witness ==
    /\ resp.op = "upload" /\ resp.status = 400
    /\ resp.payment = 0
    /\ up = NoUpload

\* C24: an upload of a zero-length file is rejected: the request is answered
\* with an error before any shard is pushed, and no record is created.
C24_EmptyFileRejected ==
    (resp.op \in {"upload", "upload-begin", "upload-shard"} /\ resp.size = 0)
    => resp.op = "upload" /\ resp.status \in {400, 500, 503}

\* clamp(ceil(file_size / SHARD_SIZE), MIN_SHARDS, MAX_SHARDS)
ClampedShardCount(file_size) ==
    LET q == CHOOSE q \in 0..(MaxMiB + 2) :
                 /\ q * SHARD_SIZE >= file_size
                 /\ q = 0 \/ (q - 1) * SHARD_SIZE < file_size
    IN IF q < MIN_SHARDS THEN MIN_SHARDS
       ELSE IF q > MAX_SHARDS THEN MAX_SHARDS ELSE q

\* C25: the number of shard files an upload creates, the num_shards of its
\* reply and the shard indexes of the record it inserts are those of
\* clamp(ceil(file_size / SHARD_SIZE), MIN_SHARDS, MAX_SHARDS): MIN_SHARDS
\* below SHARD_SIZE and MAX_SHARDS above MAX_SHARDS * SHARD_SIZE.
C25_ShardCount ==
    /\ pc = "upload"
       => /\ up.num_shards = ClampedShardCount(up.file_size)
          /\ Cardinality(up.scratch) = ClampedShardCount(up.file_size) + 1
    /\ (resp.op = "upload" /\ resp.status = 200)
       => /\ resp.num_shards = ClampedShardCount(resp.size)
          /\ ShardIndexes(shard_locations[resp.file].shards)
                 = 0..(ClampedShardCount(resp.size) - 1)
          /\ resp.size < SHARD_SIZE => resp.num_shards = MIN_SHARDS
          /\ resp.size > MAX_SHARDS * SHARD_SIZE => resp.num_shards = MAX_SHARDS

\* a file larger than MAX_SHARDS * SHARD_SIZE was recorded with MAX_SHARDS
\* shards
C25_Witness ==
    /\ resp.op = "upload" /\ resp.status = 200
    /\ resp.size > MAX_SHARDS * SHARD_SIZE
    /\ Cardinality(ShardIndexes(shard_locations[resp.file].shards)) = MAX_SHARDS

\* C26 as stated: no step of an upload request changes the membership table
\* or the rack sets.
C26_UploadKeepsMembership ==
    [][UploadStep => (renters' = renters /\ racks' = racks)]_vars

\* C26 amended: a step of an upload request changes the membership table and
\* the rack sets only by its sweep: the renters whose heartbeat is older than
\* RENTER_TIMEOUT are removed from both, every other record and rack entry
\* stays as it was.
C26_UploadOnlySweepsMembership ==
    [][UploadStep =>
          /\ renters' = [r \in DOMAIN renters \ Expired |-> renters[r]]
          /\ racks' = [k \in RackIds |-> racks[k] \ Expired]]_vars

\* an upload completed after one of its sweeps removed a renter
C26_Witness ==
    /\ resp.op = "upload"
    /\ resp.swept # {}
    /\ resp.swept \cap DOMAIN renters = {}

\* C27: when no upload is in progress none of its scratch files (staged
\* upload, shard files) exists, and after a download that opened the
\* reconstructed file and answered an error that file does not exist.
C27_ScratchReleased ==
    /\ pc = "idle" => up.scratch = {}
    /\ (/\ resp.op = "download" /\ resp.status = 500
        /\ resp.user \in client_public_keys
        /\ resp.file \in DOMAIN shard_locations)
       => resp.file \notin DOMAIN artifacts

\* C28: every reconstructed file a download leaves in UPLOAD_DIR is
\* eventually deleted.
C28_ArtifactEventuallyDeleted ==
    ("f" \in DOMAIN artifacts) ~> ("f" \notin DOMAIN artifacts)

\* C29: every body the reconstruction loop accepted and wrote to the
\* reconstructed file is non-empty (a 200 reply with an empty body is passed
\* over for the next replica, or the download fails as incomplete).
C29_EmptyBodyNotAccepted ==
    \A k \in 1..Len(rt.body) : rt.body[k].lo < rt.body[k].hi

\* C30: a file of size s split into N shards gives contiguous in-order ranges
\* where shards 0..N-2 each hold floor(s/N) bytes and shard N-1 holds all
\* the remaining bytes, so no shard is empty when s >= N.
C30_LastShardAbsorbsRemainder ==
    rt.stage # "none" =>
        LET s == rt.file_size
            N == Len(rt.pieces)
        IN /\ \A k \in 1..(N - 1) :
                  rt.pieces[k] = [lo |-> (k - 1) * (s \div N),
                                  hi |-> k * (s \div N)]
           /\ rt.pieces[N] = [lo |-> (N - 1) * (s \div N), hi |-> s]
           /\ s >= N => \A k \in 1..N : rt.pieces[k].lo < rt.pieces[k].hi

HeartbeatStep == resp'.op = "heartbeat" /\ resp'.renter \in DOMAIN renters

\* C31: a heartbeat for a registered renter changes only that renter's
\* last_heartbeat, and its ledger address when the heartbeat carries one; a
\* heartbeat without a ledger address leaves the recorded address in place,
\* and the rack of the renter, the other renters and the rack sets stay as
\* they were.
C31_HeartbeatFrame ==
    [][HeartbeatStep =>
          LET r == resp'.renter IN
          /\ DOMAIN renters' = DOMAIN renters
          /\ \A q \in DOMAIN renters \ {r} : renters'[q] = renters[q]
          /\ renters'[r].rack_id = renters[r].rack_id
          /\ renters'[r].blockchain_address =
                 IF resp'.addr = NoAddr THEN renters[r].blockchain_address
                 ELSE resp'.addr
          /\ racks' = racks]_vars

\* C32: the registration a renter process sends at startup is accepted and
\* registers the id its heartbeats carry, so that a heartbeat of a started
\* renter process is answered ok.
C32_RenterProcessRegistered ==
    \A r \in {"r1", "r2"} :
        (resp.op = "register" /\ resp.renter = RegistrationId(r))
        => /\ resp.status = 200
           /\ RegistrationId(r) = r
           /\ r \in DOMAIN renters

\* C36: every registered renter id is in exactly one rack set, the one
\* whose label its record carries, and no rack set holds an id that is not
\* registered.
C36_RackIndexConsistent ==
    /\ \A r \in DOMAIN renters :
           {k \in RackIds : r \in racks[k]} = {renters[r].rack_id}
    /\ \A k \in RackIds : racks[k] \subseteq DOMAIN renters

\* C33: a delete-shard request for a blob name that is not stored is
\* answered with success and leaves the stored blobs as they were.
C33_DeleteAbsentBlobSucceeds ==
    [][(resp'.op = "delete-shard" /\ resp'.blob \notin DOMAIN rt.blobs)
          => (resp'.status = 200 /\ rt'.blobs = rt.blobs)]_vars

\* C37: after a second upload of a placed filename failed part-way, a
\* successful download still returns exactly the bytes of the first upload.
C37_FailedReuploadKeepsBytes ==
    (rt.reupload.stored > 0 /\ rt.stage \in {"downloaded", "done"})
    => Joined(rt.body, 0) = rt.file_size

\* C34: the body a successful verify-challenge delivers for a placed file
\* holds every shard index of the placement once, in order; the partial
\* file of a failed reconstruction is never delivered.
C34_DeliveredBodyComplete ==
    (VerifyDelivered /\ resp.file \in DOMAIN shard_locations)
    => resp.body =
           [k \in 1..Cardinality(ShardIndexes(shard_locations[resp.file].shards))
               |-> k - 1]

\* C35: a verify that presents the outstanding nonce of its user, issued by
\* a successful download of the same file, finds the reconstructed file and
\* delivers it, whatever deletion tasks of earlier verifies ran in between.
C35_StagedArtifactSurvivesOldTimers ==
    [][(/\ VerifyStep
        /\ resp'.user \in client_public_keys
        /\ resp'.user \in DOMAIN active_challenges
        /\ resp'.nonce = active_challenges[resp'.user]
        /\ issued[resp'.nonce].file = resp'.file)
       => (resp'.status = 200 /\ resp'.delivered)]_vars

\* C38: a verify-challenge for a file whose placement record was deleted
\* (and not inserted again) delivers no body and attempts no transfer.
C38_NothingDeliveredAfterDelete ==
    (VerifyDone /\ resp.file \notin DOMAIN shard_locations)
    => (~resp.delivered /\ resp.sent = <<>>)

RECURSIVE SumBalances(_)
SumBalances(wallets) ==
    IF DOMAIN wallets = {} THEN 0
    ELSE LET a == CHOOSE a \in DOMAIN wallets : TRUE
         IN wallets[a] + SumBalances(DictDel(wallets, {a}))

\* connection c returns from exposed_send_money in this step
SendReturns(c, result) ==
    /\ ledger'.calls[c] # ledger.calls[c]
    /\ ledger'.calls[c].pc = "idle"
    /\ ledger'.calls[c].result = result

\* C40: when no call is in progress the wallet balances sum to the initial
\* balances of the accounts created; a send_money that fails changes no
\* balance, and one that succeeds moves exactly the amount from the sender
\* to the receiver.
C40_LedgerConservation ==
    /\ []((\A c \in Connections : ledger.calls[c].pc = "idle")
            => SumBalances(ledger.wallets) = SumBalances(ledger.initial))
    /\ [][\A c \in Connections :
             SendReturns(c, "failed") => ledger'.wallets = ledger.wallets]_vars
    /\ [][\A c \in Connections :
             SendReturns(c, "sent") =>
                 ledger'.wallets =
                     MovedWallets(ledger.wallets, ledger.calls[c].sender,
                                  ledger.calls[c].receiver,
                                  ledger.calls[c].amount)]_vars

\* C39: register-public-key with a username and a public key stores the key
\* and answers success, with or without a ledger connection; an error reply
\* leaves the registry as it was.
C39_KeyRegistrationSucceeds ==
    [][resp'.op = "register-public-key"
          => /\ resp'.status = 200
             /\ resp'.user \in client_public_keys'
             /\ resp'.status # 200
                    => client_public_keys' = client_public_keys]_vars
====
